---- MODULE Spec2Model ----
(***************************************************************************)
(* Model of localstack.utils.net.PortRange: a pool that hands out          *)
(* time-limited reservations of network ports inside [start, end), backed  *)
(* by a CustomExpiryTTLCache(maxsize=100, ttl=6) and guarded by an RLock.  *)
(*                                                                         *)
(* Threads call reserve_port / is_port_reserved; each thread's position in *)
(* reserve_port is part of the state, so that interleavings of the range   *)
(* check, the lock acquisition, the cache check, the bind probe, the       *)
(* insert and the final raise are all explored.                            *)
(***************************************************************************)
EXTENDS Integers, Sequences, FiniteSets, TLC

VARIABLES
    start,      \* PortRange.start
    end,        \* PortRange.end
    cache,      \* PortRange._ports_cache: sequence of entries, oldest first
    lock,       \* PortRange._ports_lock: [owner, count] of the RLock
    now,        \* the cache timer (time.monotonic), in whole seconds
    osBound,    \* ports currently bound by some socket of the host
    pc,         \* pc[t]: position of thread t inside reserve_port
    arg,        \* arg[t]: [port, duration] of the running reserve_port call
    cand,       \* cand[t]: the Port handed to _try_reserve_port
    result,     \* result[t]: outcome of the last call of t
    budget,     \* number of calls the clients may still make
    pool,       \* the PortRange instance whose fields are start, end, cache, lock
    other       \* the fields of the second PortRange instance of the process

vars == <<start, end, cache, lock, now, osBound, pc, arg, cand, result, budget,
          pool, other>>

----------------------------------------------------------------------------
(* Bounds of the model *)

NumThreads == 2
RangeLen == 2
MaxTime == 1
MaxCalls == 2

(* Program constants *)

MaxSize == 100
DefaultTTL == 6

Threads == 1..NumThreads

(* Port numbers used as inputs: the range [1, 1+RangeLen) and one number on
   each side of it. *)
RangeStart == 1
PortNumbers == (RangeStart - 1)..(RangeStart + RangeLen)
Protocols == {"tcp", "udp"}
PoolRanges == {<<RangeStart, RangeStart + RangeLen>>, <<RangeStart, RangeStart>>}

----------------------------------------------------------------------------
(* Port and the IntOrPort argument type *)

(* a Port object, a bare int and None, each tagged with its Python type *)
Port(n, proto) == [tag |-> "Port", port |-> n, protocol |-> proto]
IntArg(n) == [tag |-> "int", port |-> n, protocol |-> "-"]
NoneArg == [tag |-> "None", port |-> 0 - 1, protocol |-> "-"]

(* the local variable port when it is None *)
NoPort == NoneArg

(* mutant: the protocol of a Port argument is dropped *)
PortWrap_Tcp(x) == Port(x.port, "tcp")

(* Port.wrap *)
PortWrap(x) ==
    IF x.tag = "Port" THEN x ELSE Port(x.port, "tcp")

(* Optional[int] duration *)
NoDuration == [given |-> FALSE, value |-> 0]
Duration(d) == [given |-> TRUE, value |-> d]
Truthy(d) == d.given /\ d.value # 0

(* a protocol port_can_be_bound does not support *)
UnsupportedArgs == {Port(RangeStart, "sctp")}
PortArgs ==
    {NoneArg} \cup {IntArg(n) : n \in PortNumbers}
              \cup {Port(n, p) : n \in PortNumbers, p \in Protocols}
              \cup UnsupportedArgs
Durations == {NoDuration, Duration(0 - 1), Duration(0), Duration(1)}
Keys == {Port(n, p) : n \in PortNumbers, p \in Protocols}

----------------------------------------------------------------------------
(* CustomExpiryTTLCache: entries [key, value, expires], oldest first *)

Reserved == "__reserved__"
Absent == "None"

EntryLive(e, time) == time < e.expires

CacheIndex(c, k) == {i \in 1..Len(c) : c[i].key = k}

CacheHas(c, time, k) == \E i \in CacheIndex(c, k) : EntryLive(c[i], time)

CacheGet(c, time, k) ==
    IF CacheHas(c, time, k) THEN c[CHOOSE i \in CacheIndex(c, k) : TRUE].value ELSE Absent

CacheExpires(c, k) == c[CHOOSE i \in CacheIndex(c, k) : TRUE].expires

(* the storage after get(k) or keys(): expired entries are purged on access *)
CachePurge(c, time) == SelectSeq(c, LAMBDA e : EntryLive(e, time))

SeqKeys(c) == [i \in 1..Len(c) |-> c[i].key]
CacheKeys(c, time) == SeqKeys(CachePurge(c, time))

RemoveAt(c, i) == [j \in 1..(Len(c) - 1) |-> IF j < i THEN c[j] ELSE c[j + 1]]

(* the entry evicted at capacity: earliest expires, then earliest inserted *)
CacheEvictIndex(c) ==
    CHOOSE i \in 1..Len(c) :
        \A j \in 1..Len(c) :
            \/ c[i].expires < c[j].expires
            \/ (c[i].expires = c[j].expires /\ i <= j)

CacheSet(c, time, k, v, ttl) ==
    LET fresh == [key |-> k, value |-> v, expires |-> time + ttl]
    IN  IF CacheIndex(c, k) # {}
        THEN Append(SelectSeq(c, LAMBDA e : e.key # k), fresh)
        ELSE IF Len(c) >= MaxSize
             THEN Append(RemoveAt(c, CacheEvictIndex(c)), fresh)
             ELSE Append(c, fresh)

CacheSetExpiry(c, time, k, ttl) ==
    [i \in 1..Len(c) |->
        IF c[i].key = k /\ EntryLive(c[i], time)
        THEN [c[i] EXCEPT !.expires = time + ttl]
        ELSE c[i]]

(* is_port_reserved: self._ports_cache.get(port) is not None *)
PortIsReserved(c, time, k) == CacheGet(c, time, k) # Absent

----------------------------------------------------------------------------
(* Outcomes of a call *)

NoResult == [kind |-> "none", exc |-> "-", msg |-> "-", value |-> 0 - 1, keys |-> <<>>]
Returned(n) == [kind |-> "return", exc |-> "-", msg |-> "-", value |-> n, keys |-> <<>>]
Raised(m, ks) ==
    [kind |-> "raise", exc |-> "PortNotAvailableException", msg |-> m,
     value |-> 0 - 1, keys |-> ks]
Answered(b) ==
    [kind |-> "bool", exc |-> "-", msg |-> "-", value |-> IF b THEN 1 ELSE 0, keys |-> <<>>]

MsgNotInRange == "not in the port range"
MsgReserved == "already reserved"
MsgNoFree == "No free network ports available"

----------------------------------------------------------------------------
(* port_can_be_bound *)

PortCanBeBound(p, bound) ==
    IF p.protocol \in {"tcp", "udp"} THEN p \notin bound ELSE FALSE

(* port.port in range(self.start, self.end) *)
InPortsRange(n, s, e) == s <= n /\ n < e

(* threading.RLock: owner 0 stands for no owner *)
FreeLock == [owner |-> 0, count |-> 0]
(* mutant: entering the with block never waits *)
LockAvailable_Always(l, t) == l.count >= 0

LockAvailable(l, t) == l.count = 0 \/ l.owner = t
LockAcquire(l, t) == [owner |-> t, count |-> l.count + 1]
LockRelease(l) ==
    IF l.count = 1 THEN FreeLock ELSE [l EXCEPT !.count = l.count - 1]

----------------------------------------------------------------------------
(* the fields of a PortRange right after __init__(s, e) *)
EmptyPool(s, e) == [start |-> s, end |-> e, cache |-> <<>>, lock |-> FreeLock]

NoCall == [port |-> NoPort, duration |-> NoDuration]

Init ==
    /\ \E r \in PoolRanges : start = r[1] /\ end = r[2]
    /\ cache = <<>>
    /\ lock = FreeLock
    /\ now = 0
    /\ osBound = {}
    /\ pc = [t \in Threads |-> "idle"]
    /\ arg = [t \in Threads |-> NoCall]
    /\ cand = [t \in Threads |-> NoPort]
    /\ result = [t \in Threads |-> NoResult]
    /\ budget = MaxCalls
    /\ pool = "A"
    /\ other = EmptyPool(start, end)

(* the call of thread t ends with outcome r; its frame is dropped *)
Finish(t, r) ==
    /\ pc' = [pc EXCEPT ![t] = "idle"]
    /\ result' = [result EXCEPT ![t] = r]
    /\ arg' = [arg EXCEPT ![t] = NoCall]
    /\ cand' = [cand EXCEPT ![t] = NoPort]

(* thread t calls reserve_port(p, d), line 253 *)
ReservePort(t, p, d) ==
    /\ pc[t] = "idle"
    /\ budget > 0
    /\ budget' = budget - 1
    /\ pc' = [pc EXCEPT ![t] = "enter"]
    /\ arg' = [arg EXCEPT ![t] = [port |-> p, duration |-> d]]
    /\ result' = [result EXCEPT ![t] = NoResult]
    /\ UNCHANGED <<pool, other, start, end, cache, lock, now, osBound, cand>>

(* reserve_port, lines 263-268: wrap the argument and check the range *)
CheckRange(t) ==
    /\ pc[t] = "enter"
    /\ LET port == IF arg[t].port = NoneArg THEN NoPort ELSE PortWrap(arg[t].port)
       IN  IF port # NoPort /\ ~InPortsRange(port.port, start, end)
           THEN Finish(t, Raised(MsgNotInRange, <<>>))
           ELSE /\ pc' = [pc EXCEPT ![t] = "acquire"]
                /\ arg' = [arg EXCEPT ![t].port = port]
                /\ UNCHANGED <<result, cand>>
    /\ UNCHANGED <<pool, other, start, end, cache, lock, now, osBound, budget>>

(* mutant: the attempt is made without waiting for the lock *)
AcquireLock_NoExclusion(t) ==
    /\ pc[t] = "acquire"
    /\ IF arg[t].port # NoPort
       THEN /\ lock' = LockAcquire(lock, t)
            /\ cand' = [cand EXCEPT ![t] = arg[t].port]
            /\ pc' = [pc EXCEPT ![t] = "try"]
       ELSE IF start < end
            THEN /\ lock' = LockAcquire(lock, t)
                 /\ cand' = [cand EXCEPT ![t] = Port(start, "tcp")]
                 /\ pc' = [pc EXCEPT ![t] = "try"]
            ELSE /\ lock' = lock
                 /\ cand' = cand
                 /\ pc' = [pc EXCEPT ![t] = "nofree"]
    /\ UNCHANGED <<pool, other, start, end, cache, now, osBound, arg, result, budget>>

(* reserve_port, lines 269-273: enter the lock, pick the first candidate *)
AcquireLock(t) ==
    /\ pc[t] = "acquire"
    /\ LockAvailable(lock, t)
    /\ IF arg[t].port # NoPort
       THEN /\ lock' = LockAcquire(lock, t)
            /\ cand' = [cand EXCEPT ![t] = arg[t].port]
            /\ pc' = [pc EXCEPT ![t] = "try"]
       ELSE IF start < end
            THEN /\ lock' = LockAcquire(lock, t)
                 /\ cand' = [cand EXCEPT ![t] = Port(start, "tcp")]
                 /\ pc' = [pc EXCEPT ![t] = "try"]
            ELSE /\ lock' = lock
                 /\ cand' = cand
                 /\ pc' = [pc EXCEPT ![t] = "nofree"]
    /\ UNCHANGED <<pool, other, start, end, cache, now, osBound, arg, result, budget>>

(* mutant: the scan re-raises the first failure instead of trying the next
   port *)
FailAttempt_GivesUp(t) ==
    IF arg[t].port # NoPort
    THEN /\ Finish(t, Raised(MsgReserved, <<>>))
         /\ lock' = LockRelease(lock)
    ELSE /\ lock' = LockRelease(lock)
         /\ pc' = [pc EXCEPT ![t] = "nofree"]
         /\ cand' = [cand EXCEPT ![t] = NoPort]
         /\ UNCHANGED <<result, arg>>

(* mutant: the scan runs over range(start, end + 1) *)
FailAttempt_PastEnd(t) ==
    IF arg[t].port # NoPort
    THEN /\ Finish(t, Raised(MsgReserved, <<>>))
         /\ lock' = LockRelease(lock)
    ELSE IF cand[t].port + 1 <= end
         THEN /\ cand' = [cand EXCEPT ![t] = Port(cand[t].port + 1, "tcp")]
              /\ pc' = [pc EXCEPT ![t] = "try"]
              /\ UNCHANGED <<lock, result, arg>>
         ELSE /\ lock' = LockRelease(lock)
              /\ pc' = [pc EXCEPT ![t] = "nofree"]
              /\ cand' = [cand EXCEPT ![t] = NoPort]
              /\ UNCHANGED <<result, arg>>

(* mutant: a scan that found no port starts over and waits for one *)
FailAttempt_Retries(t) ==
    IF arg[t].port # NoPort
    THEN /\ Finish(t, Raised(MsgReserved, <<>>))
         /\ lock' = LockRelease(lock)
    ELSE /\ cand' = [cand EXCEPT ![t] =
                        IF cand[t].port + 1 < end
                        THEN Port(cand[t].port + 1, "tcp")
                        ELSE Port(start, "tcp")]
         /\ pc' = [pc EXCEPT ![t] = "try"]
         /\ UNCHANGED <<lock, result, arg>>

(* _try_reserve_port line 298 as seen by reserve_port: an explicit request
   propagates the exception out of the with block (line 271); the scan
   (lines 273-278) moves to the next port of the range or leaves the with
   block. *)
FailAttempt(t) ==
    IF arg[t].port # NoPort
    THEN /\ Finish(t, Raised(MsgReserved, <<>>))
         /\ lock' = LockRelease(lock)
    ELSE IF cand[t].port + 1 < end
         THEN /\ cand' = [cand EXCEPT ![t] = Port(cand[t].port + 1, "tcp")]
              /\ pc' = [pc EXCEPT ![t] = "try"]
              /\ UNCHANGED <<lock, result, arg>>
         ELSE /\ lock' = LockRelease(lock)
              /\ pc' = [pc EXCEPT ![t] = "nofree"]
              /\ cand' = [cand EXCEPT ![t] = NoPort]
              /\ UNCHANGED <<result, arg>>

(* mutant: the reservation check is left out *)
CheckReserved_Skipped(t) ==
    /\ pc[t] = "try"
    /\ pc' = [pc EXCEPT ![t] = "probe"]
    /\ UNCHANGED <<pool, other, start, end, cache, lock, now, osBound, arg, cand, result, budget>>

(* mutant: the reservation check looks for the key in storage, expired or not *)
CheckReserved_Stale(t) ==
    /\ pc[t] = "try"
    /\ cache' = cache
    /\ IF CacheIndex(cache, cand[t]) # {}
       THEN FailAttempt(t)
       ELSE /\ pc' = [pc EXCEPT ![t] = "probe"]
            /\ UNCHANGED <<lock, cand, result, arg>>
    /\ UNCHANGED <<pool, other, start, end, now, osBound, budget>>

(* mutant: a failed reservation check drops the entry it found *)
CheckReserved_Releases(t) ==
    /\ pc[t] = "try"
    /\ cache' = SelectSeq(CachePurge(cache, now), LAMBDA e : e.key # cand[t])
    /\ IF PortIsReserved(cache, now, cand[t])
       THEN FailAttempt(t)
       ELSE /\ pc' = [pc EXCEPT ![t] = "probe"]
            /\ UNCHANGED <<lock, cand, result, arg>>
    /\ UNCHANGED <<pool, other, start, end, now, osBound, budget>>

(* mutant: the conjuncts of line 291 are swapped, the bind is probed before
   the cache is looked at *)
CheckReserved_ProbeFirst(t) ==
    /\ pc[t] = "try"
    /\ cache' = cache
    /\ IF PortCanBeBound(cand[t], osBound)
       THEN /\ pc' = [pc EXCEPT ![t] = "probe"]
            /\ UNCHANGED <<lock, cand, result, arg>>
       ELSE FailAttempt(t)
    /\ UNCHANGED <<pool, other, start, end, now, osBound, budget>>

(* mutant: the reservation check looks at the port number only *)
CheckReserved_AnyProtocol(t) ==
    /\ pc[t] = "try"
    /\ cache' = CachePurge(cache, now)
    /\ IF \E p \in Protocols : PortIsReserved(cache, now, Port(cand[t].port, p))
       THEN FailAttempt(t)
       ELSE /\ pc' = [pc EXCEPT ![t] = "probe"]
            /\ UNCHANGED <<lock, cand, result, arg>>
    /\ UNCHANGED <<pool, other, start, end, now, osBound, budget>>

(* _try_reserve_port line 291, first conjunct: not self.is_port_reserved(port) *)
CheckReserved(t) ==
    /\ pc[t] = "try"
    /\ cache' = CachePurge(cache, now)
    /\ IF PortIsReserved(cache, now, cand[t])
       THEN FailAttempt(t)
       ELSE /\ pc' = [pc EXCEPT ![t] = "probe"]
            /\ UNCHANGED <<lock, cand, result, arg>>
    /\ UNCHANGED <<pool, other, start, end, now, osBound, budget>>

(* mutant: the answer of the bind probe is ignored *)
ProbeBind_Ignored(t) ==
    /\ pc[t] = "probe"
    /\ pc' = [pc EXCEPT ![t] = "insert"]
    /\ UNCHANGED <<pool, other, start, end, cache, lock, now, osBound, arg, cand, result, budget>>

(* mutant: the entry is inserted before the bind probe and stays when the
   probe fails *)
ProbeBind_InsertsFirst(t) ==
    /\ pc[t] = "probe"
    /\ cache' = CacheSet(cache, now, cand[t], Reserved, DefaultTTL)
    /\ IF PortCanBeBound(cand[t], osBound)
       THEN /\ pc' = [pc EXCEPT ![t] = "insert"]
            /\ UNCHANGED <<lock, cand, result, arg>>
       ELSE FailAttempt(t)
    /\ UNCHANGED <<pool, other, start, end, now, osBound, budget>>

(* _try_reserve_port line 291, second conjunct: port_can_be_bound(port) *)
ProbeBind(t) ==
    /\ pc[t] = "probe"
    /\ IF PortCanBeBound(cand[t], osBound)
       THEN /\ pc' = [pc EXCEPT ![t] = "insert"]
            /\ UNCHANGED <<lock, cand, result, arg>>
       ELSE FailAttempt(t)
    /\ UNCHANGED <<pool, other, start, end, cache, now, osBound, budget>>

(* the time-to-live _try_reserve_port gives the entry, lines 293-295 *)
ReservationTTL(d) == IF Truthy(d) THEN d.value ELSE DefaultTTL

(* mutant: the reservations are kept in a plain mapping, nothing is evicted *)
InsertReserved_Unbounded(t) ==
    /\ pc[t] = "insert"
    /\ cache' = Append(SelectSeq(cache, LAMBDA e : e.key # cand[t]),
                       [key |-> cand[t], value |-> Reserved,
                        expires |-> now + DefaultTTL])
    /\ IF Truthy(arg[t].duration)
       THEN /\ pc' = [pc EXCEPT ![t] = "expiry"]
            /\ UNCHANGED <<lock, cand, result, arg>>
       ELSE /\ Finish(t, Returned(cand[t].port))
            /\ lock' = LockRelease(lock)
    /\ UNCHANGED <<pool, other, start, end, now, osBound, budget>>

(* _try_reserve_port lines 293-294: the entry is set with the cache's
   default time-to-live; without a truthy duration the call returns (line
   296) and leaves the with block *)
InsertReserved(t) ==
    /\ pc[t] = "insert"
    /\ cache' = CacheSet(cache, now, cand[t], Reserved, DefaultTTL)
    /\ IF Truthy(arg[t].duration)
       THEN /\ pc' = [pc EXCEPT ![t] = "expiry"]
            /\ UNCHANGED <<lock, cand, result, arg>>
       ELSE /\ Finish(t, Returned(cand[t].port))
            /\ lock' = LockRelease(lock)
    /\ UNCHANGED <<pool, other, start, end, now, osBound, budget>>

(* _try_reserve_port lines 295-296 and the exit of the with block *)
SetExpiry(t) ==
    /\ pc[t] = "expiry"
    /\ cache' = CacheSetExpiry(cache, now, cand[t], arg[t].duration.value)
    /\ Finish(t, Returned(cand[t].port))
    /\ lock' = LockRelease(lock)
    /\ UNCHANGED <<pool, other, start, end, now, osBound, budget>>

(* reserve_port lines 279-282, outside the with block *)
RaiseNoFree(t) ==
    /\ pc[t] = "nofree"
    /\ cache' = CachePurge(cache, now)
    /\ Finish(t, Raised(MsgNoFree, CacheKeys(cache, now)))
    /\ UNCHANGED <<pool, other, start, end, lock, now, osBound, budget>>

(* thread t calls is_port_reserved(p), line 284 *)
IsPortReserved(t, p) ==
    /\ pc[t] = "idle"
    /\ budget > 0
    /\ budget' = budget - 1
    /\ pc' = [pc EXCEPT ![t] = "query"]
    /\ arg' = [arg EXCEPT ![t] = [port |-> p, duration |-> NoDuration]]
    /\ result' = [result EXCEPT ![t] = NoResult]
    /\ UNCHANGED <<pool, other, start, end, cache, lock, now, osBound, cand>>

(* is_port_reserved, lines 285-286, called by a client without the lock *)
AnswerReserved(t) ==
    /\ pc[t] = "query"
    /\ cache' = CachePurge(cache, now)
    /\ Finish(t, Answered(PortIsReserved(cache, now, PortWrap(arg[t].port))))
    /\ UNCHANGED <<pool, other, start, end, lock, now, osBound, budget>>

(* the clock of the cache advances *)
Tick ==
    /\ now < MaxTime
    /\ now' = now + 1
    /\ UNCHANGED <<pool, other, start, end, cache, lock, osBound, pc, arg, cand, result, budget>>

(* another socket of the host binds or releases a port *)
OsBind(k) ==
    /\ k \notin osBound
    /\ osBound' = osBound \cup {k}
    /\ UNCHANGED <<pool, other, start, end, cache, lock, now, pc, arg, cand, result, budget>>

OsRelease(k) ==
    /\ k \in osBound
    /\ osBound' = osBound \ {k}
    /\ UNCHANGED <<pool, other, start, end, cache, lock, now, pc, arg, cand, result, budget>>

(* _ports_cache.set_expiry(port, -1) called by client thread t between its
   calls of the pool: the expiry override used to simulate the end of a
   reservation *)
ExpireNow(t, k) ==
    /\ pc[t] = "idle"
    /\ CacheHas(cache, now, k)
    /\ cache' = CacheSetExpiry(cache, now, k, 0 - 1)
    /\ UNCHANGED <<pool, other, start, end, lock, now, osBound, pc, arg, cand, result, budget>>

(* the port other processes of the host bind and release *)
EnvPorts == {Port(RangeStart, "tcp")}

(* the steps of the clients in T and of the environment *)
NextOf(T) ==
    \/ \E t \in T, p \in PortArgs, d \in Durations : ReservePort(t, p, d)
    \/ \E t \in T : CheckRange(t)
    \/ \E t \in T : AcquireLock(t)
    \/ \E t \in T : CheckReserved(t)
    \/ \E t \in T : ProbeBind(t)
    \/ \E t \in T : InsertReserved(t)
    \/ \E t \in T : SetExpiry(t)
    \/ \E t \in T : RaiseNoFree(t)
    \/ \E t \in T, p \in PortArgs \ {NoneArg} : IsPortReserved(t, p)
    \/ \E t \in T : AnswerReserved(t)
    \/ Tick
    \/ \E k \in EnvPorts : OsBind(k)
    \/ \E k \in EnvPorts : OsRelease(k)
    \/ \E t \in T, k \in Keys : ExpireNow(t, k)

(* every thread is a client of the pool *)
Next == NextOf(Threads)

Spec == Init /\ [][Next]_vars

(* one client thread calls the pool, the environment runs beside it *)
NextSeq == NextOf({1})

SpecSeq == Init /\ [][NextSeq]_vars

----------------------------------------------------------------------------
(* Exhausting the range: one client reserves ports of the range and scans
   it, while other sockets of the host bind and release any tcp port of the
   range, the last one included. *)
ExhPorts == RangeStart..(RangeStart + RangeLen - 1)
ExhArgs == {NoneArg} \cup {IntArg(n) : n \in ExhPorts}
ExhDurations == {NoDuration, Duration(1)}
ExhEnv == {Port(n, "tcp") : n \in ExhPorts}

NextExh ==
    \/ \E p \in ExhArgs, d \in ExhDurations : ReservePort(1, p, d)
    \/ CheckRange(1)
    \/ AcquireLock(1)
    \/ CheckReserved(1)
    \/ ProbeBind(1)
    \/ InsertReserved(1)
    \/ SetExpiry(1)
    \/ RaiseNoFree(1)
    \/ Tick
    \/ \E k \in ExhEnv : OsBind(k)
    \/ \E k \in ExhEnv : OsRelease(k)

SpecExh == Init /\ [][NextExh]_vars

----------------------------------------------------------------------------
(* The race for one port: every thread calls reserve_port once, all for the
   same in-range port of a protocol the host can bind; no other socket of
   the host holds a port and no time passes. *)
RaceDurations == {NoDuration, Duration(0), Duration(1)}

InitRace ==
    /\ \E r \in PoolRanges : start = r[1] /\ end = r[2]
    /\ cache = <<>>
    /\ lock = FreeLock
    /\ now = 0
    /\ osBound = {}
    /\ pc = [t \in Threads |-> "idle"]
    /\ arg = [t \in Threads |-> NoCall]
    /\ cand = [t \in Threads |-> NoPort]
    /\ result = [t \in Threads |-> NoResult]
    /\ budget = NumThreads
    /\ pool = "A"
    /\ other = EmptyPool(start, end)

(* thread t makes its call, for the port the other threads ask for *)
RaceCall(t, p, d) ==
    /\ result[t] = NoResult
    /\ InPortsRange(p.port, start, end)
    /\ PortWrap(p).protocol \in Protocols
    /\ \A u \in Threads : pc[u] # "idle" => PortWrap(arg[u].port) = PortWrap(p)
    /\ \A i \in 1..Len(cache) : cache[i].key = PortWrap(p)
    /\ ReservePort(t, p, d)

NextRace ==
    \/ \E t \in Threads, p \in PortArgs \ {NoneArg}, d \in RaceDurations :
          RaceCall(t, p, d)
    \/ \E t \in Threads : CheckRange(t)
    \/ \E t \in Threads : AcquireLock(t)
    \/ \E t \in Threads : CheckReserved(t)
    \/ \E t \in Threads : ProbeBind(t)
    \/ \E t \in Threads : InsertReserved(t)
    \/ \E t \in Threads : SetExpiry(t)

SpecRace == InitRace /\ [][NextRace]_vars

----------------------------------------------------------------------------
(* The race for any free port: every thread calls reserve_port() once, no
   time passes, and another socket of the host binds and releases the
   first port of the range meanwhile. *)
ScanCall(t, d) ==
    /\ result[t] = NoResult
    /\ ReservePort(t, NoneArg, d)

NextScan ==
    \/ \E t \in Threads, d \in RaceDurations : ScanCall(t, d)
    \/ \E t \in Threads : CheckRange(t)
    \/ \E t \in Threads : AcquireLock(t)
    \/ \E t \in Threads : CheckReserved(t)
    \/ \E t \in Threads : ProbeBind(t)
    \/ \E t \in Threads : InsertReserved(t)
    \/ \E t \in Threads : SetExpiry(t)
    \/ \E t \in Threads : RaiseNoFree(t)
    \/ \E k \in EnvPorts : OsBind(k)
    \/ \E k \in EnvPorts : OsRelease(k)

SpecScan == InitRace /\ [][NextScan]_vars

----------------------------------------------------------------------------
(* The pool at capacity: a range of more than MaxSize ports whose first
   MaxSize ports were handed out by MaxSize calls of reserve_port() at time
   0, one client thread that asks for the first port and for the ports past
   the first MaxSize by number, and another socket of the host binding and
   releasing the first port past them. *)
CapEnd == RangeStart + MaxSize + RangeLen
CapFree == (RangeStart + MaxSize)..(CapEnd - 1)
CapArgs == {IntArg(RangeStart)} \cup {IntArg(n) : n \in CapFree}
CapDurations == {NoDuration, Duration(1)}
CapEnv == {Port(RangeStart + MaxSize, "tcp")}
CapExpire == {Port(RangeStart, "tcp"), Port(RangeStart + MaxSize, "tcp")}

InitCap ==
    /\ start = RangeStart
    /\ end = CapEnd
    /\ cache = [i \in 1..MaxSize |->
                  [key |-> Port(RangeStart + i - 1, "tcp"), value |-> Reserved,
                   expires |-> 0 + DefaultTTL]]
    /\ lock = FreeLock
    /\ now = 0
    /\ osBound = {}
    /\ pc = [t \in Threads |-> "idle"]
    /\ arg = [t \in Threads |-> NoCall]
    /\ cand = [t \in Threads |-> NoPort]
    /\ result = [t \in Threads |-> NoResult]
    /\ budget = MaxCalls
    /\ pool = "A"
    /\ other = EmptyPool(start, end)

NextCap ==
    \/ \E p \in CapArgs, d \in CapDurations : ReservePort(1, p, d)
    \/ CheckRange(1)
    \/ AcquireLock(1)
    \/ CheckReserved(1)
    \/ ProbeBind(1)
    \/ InsertReserved(1)
    \/ SetExpiry(1)
    \/ \E p \in CapArgs : IsPortReserved(1, p)
    \/ AnswerReserved(1)
    \/ Tick
    \/ \E k \in CapEnv : OsBind(k)
    \/ \E k \in CapEnv : OsRelease(k)
    \/ \E k \in CapExpire : ExpireNow(1, k)

SpecCap == InitCap /\ [][NextCap]_vars

----------------------------------------------------------------------------
(* Scans of the pool at capacity: from the full cache of InitCap the client
   thread asks for any free port or for the udp port of the first number,
   while another socket of the host binds and releases the first port past
   the reserved ones and reservations are expired explicitly. *)
FullArgs == {NoneArg, Port(RangeStart, "udp")}

NextFull ==
    \/ \E p \in FullArgs : ReservePort(1, p, NoDuration)
    \/ CheckRange(1)
    \/ AcquireLock(1)
    \/ CheckReserved(1)
    \/ ProbeBind(1)
    \/ InsertReserved(1)
    \/ \E k \in CapEnv : OsBind(k)
    \/ \E k \in CapEnv : OsRelease(k)
    \/ \E k \in CapExpire : ExpireNow(1, k)

SpecFull == InitCap /\ [][NextFull]_vars

----------------------------------------------------------------------------
(* The threads under a fair scheduler and a fair lock: every thread inside
   reserve_port keeps running, and a thread waiting for the lock gets it
   if the lock is free again and again.  The threads call reserve_port for
   any free port or for the first port of the range. *)
LiveArgs == {NoneArg, IntArg(RangeStart)}
LiveDurations == {NoDuration, Duration(1)}

NextLive ==
    \/ \E t \in Threads, p \in LiveArgs, d \in LiveDurations : ReservePort(t, p, d)
    \/ \E t \in Threads : CheckRange(t)
    \/ \E t \in Threads : AcquireLock(t)
    \/ \E t \in Threads : CheckReserved(t)
    \/ \E t \in Threads : ProbeBind(t)
    \/ \E t \in Threads : InsertReserved(t)
    \/ \E t \in Threads : SetExpiry(t)
    \/ \E t \in Threads : RaiseNoFree(t)
    \/ \E k \in EnvPorts : OsBind(k)
    \/ \E k \in EnvPorts : OsRelease(k)

Fairness ==
    \A t \in Threads :
        /\ WF_vars(CheckRange(t))
        /\ SF_vars(AcquireLock(t))
        /\ WF_vars(CheckReserved(t))
        /\ WF_vars(ProbeBind(t))
        /\ WF_vars(InsertReserved(t))
        /\ WF_vars(SetExpiry(t))
        /\ WF_vars(RaiseNoFree(t))

SpecLive == Init /\ [][NextLive]_vars /\ Fairness

----------------------------------------------------------------------------
(* Two PortRange instances in one process, on one host: the client thread
   calls either of them.  start, end, cache and lock are the fields of the
   instance named by pool; the fields of the second instance wait in
   other. *)
Pools == {"A", "B"}

(* mutant: the cache is an attribute of the class, shared by the instances *)
SwitchPool_SharedCache ==
    /\ \A t \in Threads : pc[t] = "idle"
    /\ pool' = IF pool = "A" THEN "B" ELSE "A"
    /\ other' = [start |-> start, end |-> end, cache |-> cache, lock |-> lock]
    /\ start' = other.start
    /\ end' = other.end
    /\ cache' = cache
    /\ lock' = other.lock
    /\ UNCHANGED <<now, osBound, pc, arg, cand, result, budget>>

(* the next call is made on the second instance: self is rebound, each
   instance keeps the attributes __init__ gave it (lines 248-251) *)
SwitchPool ==
    /\ \A t \in Threads : pc[t] = "idle"
    /\ pool' = IF pool = "A" THEN "B" ELSE "A"
    /\ other' = [start |-> start, end |-> end, cache |-> cache, lock |-> lock]
    /\ start' = other.start
    /\ end' = other.end
    /\ cache' = other.cache
    /\ lock' = other.lock
    /\ UNCHANGED <<now, osBound, pc, arg, cand, result, budget>>

TwoArgs == {IntArg(RangeStart), IntArg(RangeStart + 1), Port(RangeStart, "udp")}
TwoDurations == {NoDuration, Duration(1)}

InitTwo ==
    /\ \E r \in PoolRanges : start = r[1] /\ end = r[2]
    /\ \E r \in PoolRanges : other = EmptyPool(r[1], r[2])
    /\ pool = "A"
    /\ cache = <<>>
    /\ lock = FreeLock
    /\ now = 0
    /\ osBound = {}
    /\ pc = [t \in Threads |-> "idle"]
    /\ arg = [t \in Threads |-> NoCall]
    /\ cand = [t \in Threads |-> NoPort]
    /\ result = [t \in Threads |-> NoResult]
    /\ budget = MaxCalls

NextTwo ==
    \/ \E p \in TwoArgs, d \in TwoDurations : ReservePort(1, p, d)
    \/ CheckRange(1)
    \/ AcquireLock(1)
    \/ CheckReserved(1)
    \/ ProbeBind(1)
    \/ InsertReserved(1)
    \/ SetExpiry(1)
    \/ \E p \in TwoArgs : IsPortReserved(1, p)
    \/ AnswerReserved(1)
    \/ SwitchPool
    \/ Tick
    \/ \E k \in EnvPorts : OsBind(k)
    \/ \E k \in EnvPorts : OsRelease(k)

SpecTwo == InitTwo /\ [][NextTwo]_vars

----------------------------------------------------------------------------
(* Vocabulary of the properties *)

(* k has a live (unexpired) entry in storage c at the given time *)
LiveKey(c, time, k) ==
    \E i \in 1..Len(c) : c[i].key = k /\ time < c[i].expires

(* the live entries of c, in order, as seen at the given time *)
LiveEntries(c, time) == SelectSeq(c, LAMBDA e : time < e.expires)

(* the expiry of the live entry of k *)
LiveExpiry(c, time, k) ==
    c[CHOOSE i \in 1..Len(c) : c[i].key = k /\ time < c[i].expires].expires

(* thread t takes a step of its call *)
Moved(t) == pc'[t] # pc[t] \/ cand'[t] # cand[t] \/ arg'[t] # arg[t]

(* thread t is inside reserve_port, past the range check *)
InBody(t) == pc[t] \in {"acquire", "try", "probe", "insert", "expiry", "nofree"}

(* the step of t ends its reserve_port call with a returned port *)
Returns(t) == pc[t] \in {"insert", "expiry"} /\ pc'[t] = "idle"
Explicit(t) == InBody(t) /\ arg[t].port # NoPort
Scanning(t) == InBody(t) /\ arg[t].port = NoPort

(* the Port an IntOrPort argument denotes: a bare int n is (n, tcp) *)
Denoted(x) ==
    [tag |-> "Port", port |-> x.port,
     protocol |-> IF x.tag = "int" THEN "tcp" ELSE x.protocol]

InRangeKeys == {k \in Keys : start <= k.port /\ k.port < end}

(* the cache of instance x, now and after the step *)
CacheOf(x) == IF pool = x THEN cache ELSE other.cache
CacheOfNext(x) == IF pool' = x THEN cache' ELSE other'.cache

----------------------------------------------------------------------------
(* C1: when every thread calls reserve_port(P) for the same in-range,
   bindable port P and no time passes, at most one call ever returns, a
   call fails only with the already-reserved PortNotAvailableException and
   only after another call has returned P, the call that returns leaves P
   as the one reservation of the pool, and once all NumThreads calls are
   over exactly one has returned P and the NumThreads - 1 others have
   failed. *)
C1_ExactlyOneSucceeds ==
    LET won == {t \in Threads : result[t].kind = "return"}
        lost == {t \in Threads : result[t].kind = "raise"}
    IN  /\ Cardinality(won) <= 1
        /\ \A t \in lost : result[t] = Raised(MsgReserved, <<>>)
        /\ lost # {} => won # {}
        /\ \A t \in won :
              /\ Len(cache) = 1
              /\ cache[1].key.port = result[t].value
              /\ start <= result[t].value /\ result[t].value < end
              /\ \A u \in Threads :
                    pc[u] # "idle" => PortWrap(arg[u].port) = cache[1].key
        /\ (\A t \in Threads : pc[t] = "idle" /\ result[t] # NoResult) =>
              /\ Cardinality(won) = 1
              /\ Cardinality(lost) = NumThreads - 1

(* all the calls for the port are over *)
C1_Witness ==
    /\ NumThreads >= 2
    /\ \A t \in Threads : pc[t] = "idle" /\ result[t] # NoResult
    /\ \E t \in Threads : result[t].kind = "raise"

----------------------------------------------------------------------------
(* C2, as stated: a port that is reserved stays reserved in the next state
   unless its time-to-live has elapsed by then or its entry is expired
   explicitly, whatever reserve_port calls are made. *)
C2_ReservedUntilTTL ==
    [][cache' # cache =>
          \A i \in 1..Len(cache) :
             (now < cache[i].expires /\ now' < cache[i].expires) =>
                \/ LiveKey(cache', now', cache[i].key)
                \/ \E j \in 1..Len(cache') :
                      /\ cache'[j].key = cache[i].key
                      /\ cache'[j].expires = now - 1]_vars

(* C2, amended: a reserve_port(P) that returns with a positive
   time-to-live leaves P reserved; a step that changes the cache keeps
   every reserved port reserved, with the same expiry time, unless the step
   expires the entry explicitly, or it is the set_expiry of the call that
   made the reservation and has not returned yet, or the cache is full
   (MaxSize entries in storage) and the step is the insert of a successful
   reserve_port for a port that has no entry, which evicts the entry whose
   expiry time is earliest; failed
   reserve_port calls and is_port_reserved calls never end a reservation.
   is_port_reserved(P) answers TRUE exactly when P has an entry whose
   expiry time has not been reached, so it is FALSE once the time-to-live
   has elapsed. *)
C2_ReservedUntilExpiryOrEviction ==
    [][/\ cache' # cache =>
             \A i \in 1..Len(cache) :
                (now < cache[i].expires /\ now' < cache[i].expires) =>
                   \/ \E j \in 1..Len(cache') : cache'[j] = cache[i]
                   \/ \E j \in 1..Len(cache') :
                         /\ cache'[j].key = cache[i].key
                         /\ cache'[j].expires = now - 1
                   \/ \E t \in Threads :
                         /\ pc[t] = "insert"
                         /\ Moved(t)
                         /\ Len(cache) >= MaxSize
                         /\ \A j \in 1..Len(cache) : cache[j].key # cand[t]
                         /\ \A j \in 1..Len(cache) :
                               cache[i].expires <= cache[j].expires
                   \/ \E t \in Threads :
                         /\ pc[t] = "expiry"
                         /\ Moved(t)
                         /\ cand[t] = cache[i].key
       /\ \A t \in Threads :
             /\ (Returns(t) /\ ReservationTTL(arg[t].duration) > 0) =>
                    LiveKey(cache', now', cand[t])
             /\ (pc[t] \in {"enter", "acquire", "try", "probe", "nofree", "query"}
                   /\ Moved(t)) =>
                    LiveEntries(cache', now) = LiveEntries(cache, now)
             /\ (pc[t] = "query" /\ Moved(t)) =>
                    \E b \in BOOLEAN :
                       /\ result'[t] = Answered(b)
                       /\ b <=> LiveKey(cache, now, Denoted(arg[t].port))]_vars

(* the cache is full, the port past the first MaxSize ports holds a
   reservation, and the reservation of the first port, whose time-to-live
   has not elapsed, is gone *)
C2_Witness ==
    /\ Len(cache) = MaxSize
    /\ LiveKey(cache, now, Port(RangeStart + MaxSize, "tcp"))
    /\ \A i \in 1..Len(cache) : cache[i].key # Port(RangeStart, "tcp")
    /\ now < DefaultTTL

----------------------------------------------------------------------------
(* C3, as stated: a request for a port outside [start, end) fails with an
   error kind that is distinct from the kind raised for an unavailable
   port. *)
C3_DistinctErrorKind ==
    \A t \in Threads :
        (result[t].kind = "raise" /\ result[t].msg = MsgNotInRange)
            => result[t].exc # Raised(MsgReserved, <<>>).exc

(* C3, what the program does for such a request: a reserve_port call whose
   explicit port number is outside [start, end) never gets past the range
   check: it raises PortNotAvailableException (the one exception class of
   the pool, here with the not-in-range message) in the same step, takes no
   lock, makes no bind probe and leaves the cache and the host's sockets as
   they were. *)
C3_OutOfRangeRejected ==
    [][\A t \in Threads :
          (pc[t] = "enter" /\ Moved(t) /\ arg[t].port # NoneArg
             /\ ~(start <= arg[t].port.port /\ arg[t].port.port < end)) =>
                /\ result'[t] = Raised(MsgNotInRange, <<>>)
                /\ result'[t].exc = "PortNotAvailableException"
                /\ pc'[t] = "idle"
                /\ cache' = cache
                /\ lock' = lock
                /\ osBound' = osBound]_vars

(* a call was rejected for its range while some port of the host is bound *)
C3_Witness ==
    \E t \in Threads :
        /\ pc[t] = "idle"
        /\ result[t] = Raised(MsgNotInRange, <<>>)
        /\ osBound # {}
        /\ cache # <<>>

----------------------------------------------------------------------------
(* C4: reserve_port(P) for an in-range P that holds a live reservation (a
   first reserve_port(P) succeeded and its time-to-live has not elapsed)
   fails with PortNotAvailableException at the reservation check, whatever
   the host would answer to a bind probe; the call releases the lock and
   changes no reservation.  A successful reserve_port with a positive or
   absent duration leaves its port reserved, so an immediate second call
   meets that case. *)
C4_SecondReserveFails ==
    [][\A t \in Threads :
          /\ (pc[t] = "try" /\ Explicit(t) /\ Moved(t)
                /\ LiveKey(cache, now, arg[t].port)) =>
                 /\ result'[t] = Raised(MsgReserved, <<>>)
                 /\ pc'[t] = "idle"
                 /\ lock' = FreeLock
                 /\ LiveEntries(cache', now) = LiveEntries(cache, now)
          /\ (Returns(t)
                /\ (~arg[t].duration.given \/ arg[t].duration.value > 0)) =>
                 LiveKey(cache', now', cand[t])]_vars

(* a second reserve_port(P) is at its reservation check while P is reserved
   and the host would let P be bound *)
C4_Witness ==
    \E t \in Threads :
        /\ pc[t] = "try"
        /\ Explicit(t)
        /\ budget < MaxCalls - 1
        /\ LiveKey(cache, now, arg[t].port)
        /\ PortCanBeBound(arg[t].port, osBound)

----------------------------------------------------------------------------
(* C5: reserve_port(None) tries (start, tcp) first and moves from n to n+1
   only when (n, tcp) holds a live reservation or cannot be bound at the
   moment it is tried; it never passes over a port that is free and
   bindable when tried, so the port it reserves is the lowest such port.
   The returned number n is the reserved one, start <= n < end, and
   (n, tcp) is reserved in the state right after the call. *)
C5_ScanLowestFree ==
    [][\A t \in Threads :
          (Scanning(t) /\ Moved(t)) =>
             /\ (pc[t] = "acquire" /\ pc'[t] = "try" => cand'[t] = Port(start, "tcp"))
             /\ (pc[t] \in {"try", "probe"} /\ cand'[t] # cand[t] =>
                    /\ (LiveKey(cache, now, cand[t]) \/ cand[t] \in osBound)
                    /\ (pc'[t] = "try" => cand'[t] = Port(cand[t].port + 1, "tcp")))
             /\ (pc[t] = "try" =>
                    (LiveKey(cache, now, cand[t]) <=> pc'[t] # "probe"))
             /\ (pc[t] = "probe" =>
                    (cand[t] \in osBound <=> pc'[t] # "insert"))
             /\ (pc[t] = "insert" =>
                    /\ pc'[t] \in {"expiry", "idle"}
                    /\ (pc'[t] = "expiry" => cand'[t] = cand[t])
                    /\ start <= cand[t].port /\ cand[t].port < end
                    /\ cand[t].protocol = "tcp")
             /\ (pc[t] = "expiry" => pc'[t] = "idle")
             /\ (Returns(t) =>
                    /\ result'[t] = Returned(cand[t].port)
                    /\ ((~arg[t].duration.given \/ arg[t].duration.value > 0)
                           => LiveKey(cache', now', cand[t])))]_vars

(* a scan has passed over the first port of the range and is about to
   reserve a later one *)
C5_Witness ==
    \E t \in Threads :
        /\ Scanning(t)
        /\ pc[t] = "insert"
        /\ cand[t].port > start
        /\ ~arg[t].duration.given

----------------------------------------------------------------------------
(* C6: reserve_port(None) maps the ports of the range to attempts in
   ascending order, and an attempt fails exactly when its port is reserved
   or cannot be bound at that moment: a reserved port is passed over
   without a probe, an unreserved port is probed, an unbindable port is
   passed over, and an unreserved bindable port is inserted and returned.
   The scan therefore leaves the with block without a port exactly when the
   range is empty or every port up to the last one failed its attempt.  It
   then raises PortNotAvailableException carrying the keys of the live
   reservations, it raises nothing else, and no step of a scan other than
   the insert and the set_expiry of its successful attempt changes a
   reservation. *)
C6_ScanExhausted ==
    [][\A t \in Threads :
          (Scanning(t) /\ Moved(t)) =>
             LET reserved == LiveKey(cache, now, cand[t])
                 unbindable == ~PortCanBeBound(cand[t], osBound)
                 passedOver ==
                     IF cand[t].port + 1 < end
                     THEN /\ pc'[t] = "try"
                          /\ cand'[t] = Port(cand[t].port + 1, "tcp")
                     ELSE pc'[t] = "nofree"
             IN  /\ (pc[t] = "acquire" =>
                       IF start < end
                       THEN pc'[t] = "try" /\ cand'[t] = Port(start, "tcp")
                       ELSE pc'[t] = "nofree")
                 /\ (pc[t] = "try" =>
                       IF reserved
                       THEN passedOver
                       ELSE pc'[t] = "probe" /\ cand'[t] = cand[t])
                 /\ (pc[t] = "probe" =>
                       IF unbindable
                       THEN passedOver
                       ELSE pc'[t] = "insert" /\ cand'[t] = cand[t])
                 /\ (pc'[t] = "nofree" =>
                       \/ (pc[t] = "acquire" /\ ~(start < end))
                       \/ (pc[t] = "try" /\ cand[t].port = end - 1 /\ reserved)
                       \/ (pc[t] = "probe" /\ cand[t].port = end - 1
                             /\ unbindable))
                 /\ (pc[t] \in {"acquire", "try", "probe", "nofree"} =>
                       LiveEntries(cache', now) = LiveEntries(cache, now))
                 /\ (pc[t] \in {"insert", "expiry"} =>
                       /\ pc'[t] \in {"expiry", "idle"}
                       /\ (pc'[t] = "idle" =>
                             result'[t] = Returned(cand[t].port)))
                 /\ (pc'[t] = "idle" /\ result'[t].kind = "raise" =>
                       pc[t] = "nofree")
                 /\ (pc[t] = "nofree" =>
                       /\ pc'[t] = "idle"
                       /\ result'[t] =
                            Raised(MsgNoFree,
                                   [i \in 1..Len(LiveEntries(cache, now)) |->
                                       LiveEntries(cache, now)[i].key]))]_vars

(* a scan of a non-empty range found no port although the last port of the
   range was not reserved: the ports before it were reserved (their keys
   are reported) and the last one could not be bound *)
C6_Witness ==
    \E t \in Threads :
        /\ pc[t] = "idle"
        /\ result[t].kind = "raise"
        /\ result[t].msg = MsgNoFree
        /\ result[t].keys # <<>>
        /\ start < end
        /\ \A i \in 1..Len(result[t].keys) : result[t].keys[i].port # end - 1

(* a scan of an empty range found no port *)
C6_WitnessEmptyRange ==
    \E t \in Threads :
        /\ pc[t] = "idle"
        /\ result[t].msg = MsgNoFree
        /\ start = end

----------------------------------------------------------------------------
(* C7: the only steps of a reserve_port call that change the live
   reservations (their keys, values, expiry times and order) are the insert
   of a successful attempt and the set_expiry that follows it, and a call
   that reached the insert always returns the port.  A call
   that fails - at the range check, at the reservation check, at the bind
   probe or by exhausting the range - therefore leaves every reservation,
   the one of the requested port included, as it was. *)
C7_FailureLeavesCache ==
    [][\A t \in Threads :
          /\ (Moved(t) /\ pc[t] \in {"enter", "acquire", "try", "probe", "nofree"}) =>
                 LiveEntries(cache', now) = LiveEntries(cache, now)
          /\ (Moved(t) /\ pc'[t] = "idle" /\ result'[t].kind = "raise") =>
                 pc[t] \in {"enter", "try", "probe", "nofree"}
          /\ (pc[t] \in {"insert", "expiry"} /\ Moved(t)) =>
                 \/ (pc[t] = "insert" /\ pc'[t] = "expiry")
                 \/ (pc'[t] = "idle" /\ result'[t].kind = "return")]_vars

(* an explicit request failed at the bind probe while another port was
   reserved *)
C7_Witness ==
    \E t \in Threads :
        /\ pc[t] = "idle"
        /\ result[t] = Raised(MsgReserved, <<>>)
        /\ LiveEntries(cache, now) # <<>>
        /\ \A i \in 1..Len(cache) : cache[i].key \notin osBound
        /\ osBound # {}
        /\ budget = 0

----------------------------------------------------------------------------
(* C8, as stated: when reserve_port(port, duration) returns, the
   reservation it made expires duration seconds later for every given
   duration, and DefaultTTL seconds later when the duration is omitted. *)
C8_DurationIsTTL ==
    [][\A t \in Threads :
          Returns(t) =>
             \E i \in 1..Len(cache') :
                /\ cache'[i].key = cand[t]
                /\ cache'[i].expires =
                      now + (IF arg[t].duration.given
                             THEN arg[t].duration.value
                             ELSE DefaultTTL)]_vars

----------------------------------------------------------------------------
(* C9: a port whose entries have all expired (by time or by
   set_expiry(port, -1)) is not reported as reserved; an explicit
   reserve_port for a port without live reservation passes the reservation
   check, passes the probe when the host lets the port be bound, and then
   returns the port number, leaving exactly one entry for the port whose
   expiry is counted from the time of the new insert. *)
C9_ExpiredNotReserved ==
    \A k \in Keys :
        (\A i \in 1..Len(cache) : cache[i].key = k => cache[i].expires <= now)
            => ~PortIsReserved(cache, now, k)

C9_ExpiredCanBeReservedAgain ==
    /\ []C9_ExpiredNotReserved
    /\ [][\A t \in Threads :
             (Explicit(t) /\ Moved(t)) =>
                /\ (pc[t] = "try" /\ ~LiveKey(cache, now, cand[t]) => pc'[t] = "probe")
                /\ (pc[t] = "probe" /\ cand[t].protocol \in {"tcp", "udp"}
                      /\ cand[t] \notin osBound => pc'[t] = "insert")
                /\ (pc[t] = "insert" => pc'[t] \in {"expiry", "idle"})
                /\ (Returns(t) =>
                      /\ result'[t] = Returned(arg[t].port.port)
                      /\ Cardinality({i \in 1..Len(cache') : cache'[i].key = cand[t]}) = 1
                      /\ \E i \in 1..Len(cache') :
                            /\ cache'[i].key = cand[t]
                            /\ cache'[i].expires =
                                  now + (IF arg[t].duration.given
                                            /\ arg[t].duration.value # 0
                                         THEN arg[t].duration.value
                                         ELSE DefaultTTL))]_vars

(* a fresh reserve_port(P) is at its reservation check while the expired
   entry of an earlier reservation of P is still in storage and the host
   lets P be bound *)
C9_Witness ==
    \E t \in Threads :
        /\ pc[t] = "try"
        /\ Explicit(t)
        /\ \E i \in 1..Len(cache) :
              cache[i].key = arg[t].port /\ cache[i].expires <= now
        /\ PortCanBeBound(arg[t].port, osBound)

----------------------------------------------------------------------------
(* C10: the reservation check of an attempt at (n, proto) fails exactly
   when that very pair holds a live reservation, is_port_reserved answers
   for the very pair it is asked about, and a bare integer n stands for
   (n, tcp) in both reserve_port and is_port_reserved: a reservation of
   (n, tcp) neither answers for nor blocks (n, udp), and conversely. *)
C10_KeyedByNumberAndProtocol ==
    [][\A t \in Threads :
          /\ (pc[t] = "try" /\ Moved(t)) =>
                (pc'[t] = "probe" <=> ~LiveKey(cache, now, cand[t]))
          /\ (pc[t] = "query" /\ Moved(t)) =>
                (result'[t] = Answered(TRUE)
                    <=> LiveKey(cache, now, Denoted(arg[t].port)))
          /\ (pc[t] = "enter" /\ pc'[t] = "acquire" /\ arg[t].port # NoneArg) =>
                arg'[t].port = Denoted(arg[t].port)
          /\ (pc[t] = "acquire" /\ pc'[t] = "try" /\ Explicit(t)) =>
                cand'[t] = arg[t].port]_vars

(* the tcp and the udp port of one number are reserved at the same time *)
C10_Witness ==
    \E n \in PortNumbers :
        /\ LiveKey(cache, now, Port(n, "tcp"))
        /\ LiveKey(cache, now, Port(n, "udp"))

----------------------------------------------------------------------------
(* C11: two PortRange instances share no reservation.  A call on one
   instance leaves the cache, the lock and the range of the other as they
   were, and so does passing from one instance to the other;
   is_port_reserved(P) on an instance answers TRUE exactly when that
   instance's own cache holds a live entry of P; an attempt at P fails at
   the reservation check exactly when the instance's own cache holds a live
   entry of P, and at the bind probe exactly when the host refuses the
   bind: a reserve_port(P) that passed the range check fails for no other
   reason. *)
C11_PoolsIndependent ==
    [][/\ pool' = pool => other' = other
       /\ \A x \in Pools : pool' # pool => CacheOfNext(x) = CacheOf(x)
       /\ \A t \in Threads :
             /\ (pc[t] = "query" /\ Moved(t)) =>
                   (result'[t] = Answered(TRUE)
                       <=> LiveKey(cache, now, Denoted(arg[t].port)))
             /\ (pc[t] = "try" /\ Moved(t)) =>
                   (pc'[t] = "idle" <=> LiveKey(cache, now, cand[t]))
             /\ (pc[t] = "probe" /\ Moved(t)) =>
                   (pc'[t] = "idle" <=> ~PortCanBeBound(cand[t], osBound))
             /\ (Explicit(t) /\ Moved(t) /\ result'[t].kind = "raise") =>
                   /\ pc[t] \in {"try", "probe"}
                   /\ result'[t] = Raised(MsgReserved, <<>>)]_vars

(* instance B is about to insert a port that instance A holds reserved *)
C11_Witness ==
    \E t \in Threads :
        /\ pool = "B"
        /\ pc[t] = "insert"
        /\ LiveKey(other.cache, now, cand[t])
        /\ ~LiveKey(cache, now, cand[t])

----------------------------------------------------------------------------
(* C12, as stated: every step of a thread that reads or writes the cache
   (the reservation check, the insert with its set_expiry, the listing of
   the keys for the exhaustion error, the answer of is_port_reserved) or
   probes a bind is taken while that thread holds the lock of the pool. *)
C12_AccessUnderLock ==
    [][\A t \in Threads :
          (Moved(t)
             /\ pc[t] \in {"try", "probe", "insert", "expiry", "nofree", "query"}) =>
             (lock.owner = t /\ lock.count > 0)]_vars

----------------------------------------------------------------------------
(* C13: the cache never holds more than MaxSize entries.  The insert of a
   successful attempt leaves the entry of its port as the newest entry of
   the cache; when the port had no entry and the cache held MaxSize
   entries, exactly one other entry is evicted - the one whose expiry time
   is earliest, the oldest of them when several share it - and all other
   entries are kept as they were; when the cache held fewer entries,
   nothing is evicted.  The set_expiry that follows the insert adds and
   removes no entry. *)
C13_CacheBounded ==
    /\ [](Len(cache) <= MaxSize)
    /\ [][\A t \in Threads :
             (pc[t] = "insert" /\ Moved(t)) =>
                /\ Len(cache') >= 1
                /\ cache'[Len(cache')].key = cand[t]
                /\ cache'[Len(cache')].value = Reserved
                /\ (\A j \in 1..Len(cache) : cache[j].key # cand[t]) =>
                      IF Len(cache) = MaxSize
                      THEN /\ Len(cache') = MaxSize
                           /\ \E i \in 1..Len(cache) :
                                 /\ \A j \in 1..Len(cache) :
                                       \/ cache[i].expires < cache[j].expires
                                       \/ (cache[i].expires = cache[j].expires
                                             /\ i <= j)
                                 /\ \A j \in 1..(Len(cache) - 1) :
                                       cache'[j] = IF j < i THEN cache[j]
                                                   ELSE cache[j + 1]
                      ELSE /\ Len(cache') = Len(cache) + 1
                           /\ \A j \in 1..Len(cache) : cache'[j] = cache[j]]_vars
    /\ [][\A t \in Threads :
             (pc[t] = "expiry" /\ Moved(t)) =>
                /\ Len(cache') = Len(cache)
                /\ \A j \in 1..Len(cache) : cache'[j].key = cache[j].key]_vars

(* an insert at capacity has evicted the oldest entry, and a second insert
   is about to be made while the cache is full again and the entry that
   expires soonest (the one just inserted) is not the oldest one *)
C13_Witness ==
    \E t \in Threads :
        /\ pc[t] = "insert"
        /\ Len(cache) = MaxSize
        /\ \A i \in 1..Len(cache) :
              cache[i].key # cand[t] /\ cache[i].key # Port(RangeStart, "tcp")
        /\ cache[Len(cache)].key = Port(RangeStart + MaxSize, "tcp")
        /\ cache[Len(cache)].expires < cache[1].expires
        /\ now < cache[Len(cache)].expires

----------------------------------------------------------------------------
(* C14: in every reachable state every entry of the cache, live or
   expired, is for a port number n with start <= n < end, and so is every
   port that a reservation attempt checks, probes or inserts, whether it
   was asked for explicitly or met by the scan. *)
C14_ReservationsInRange ==
    /\ \A i \in 1..Len(cache) :
          start <= cache[i].key.port /\ cache[i].key.port < end
    /\ \A t \in Threads :
          pc[t] \in {"try", "probe", "insert", "expiry"} =>
             (start <= cand[t].port /\ cand[t].port < end)

(* both ends of the range hold a live reservation, the last port of the
   range having just been returned *)
C14_Witness ==
    \E t \in Threads :
        /\ start < end - 1
        /\ result[t] = Returned(end - 1)
        /\ LiveKey(cache, now, Port(start, "tcp"))
        /\ LiveKey(cache, now, Port(end - 1, "tcp"))

----------------------------------------------------------------------------
(* C15: the steps of an attempt at a port are ordered.  An attempt starts
   at the reservation check; the bind probe is reached only from a
   reservation check that found no live entry of the port, so an attempt
   at a reserved port ends without a probe; the insert is reached only
   from a probe that the host let succeed; and a key enters the cache only
   by the insert step of an attempt at that very key. *)
C15_CheckProbeInsert ==
    [][/\ \A t \in Threads :
             /\ (pc'[t] = "try" /\ Moved(t)) =>
                   pc[t] \in {"acquire", "try", "probe"}
             /\ (pc'[t] = "probe" /\ Moved(t)) =>
                   /\ pc[t] = "try"
                   /\ cand'[t] = cand[t]
                   /\ ~LiveKey(cache, now, cand[t])
             /\ (pc[t] = "try" /\ Moved(t) /\ LiveKey(cache, now, cand[t])) =>
                   /\ pc'[t] \notin {"probe", "insert"}
                   /\ (pc'[t] = "try" => cand'[t] # cand[t])
             /\ (pc'[t] = "insert" /\ Moved(t)) =>
                   /\ pc[t] = "probe"
                   /\ cand'[t] = cand[t]
                   /\ PortCanBeBound(cand[t], osBound)
             /\ (pc'[t] = "expiry" /\ Moved(t)) =>
                   /\ pc[t] = "insert"
                   /\ cand'[t] = cand[t]
       /\ \A j \in 1..Len(cache') :
             (\A i \in 1..Len(cache) : cache[i].key # cache'[j].key) =>
                \E t \in Threads :
                   /\ pc[t] = "insert"
                   /\ Moved(t)
                   /\ cand[t] = cache'[j].key]_vars

(* an explicit attempt has passed the reservation check and is at the probe
   of a port the host will refuse, while another port is reserved *)
C15_Witness ==
    \E t \in Threads :
        /\ pc[t] = "probe"
        /\ Explicit(t)
        /\ cand[t] \in osBound
        /\ LiveEntries(cache, now) # <<>>

----------------------------------------------------------------------------
(* C16: with a fair lock every reserve_port call terminates: a thread
   inside reserve_port eventually is back at its caller with a returned
   port number or a raised exception.  An explicit request makes one
   attempt; a scan makes its attempts at start, start + 1, ... in this
   order, each inside [start, end), so at most end - start of them; no
   attempt is repeated. *)
C16_Terminates ==
    /\ \A t \in Threads :
          (pc[t] # "idle") ~>
             (pc[t] = "idle" /\ result[t].kind \in {"return", "raise"})
    /\ [][\A t \in Threads :
             (pc'[t] = "try" /\ Moved(t)) =>
                IF pc[t] = "acquire"
                THEN arg[t].port = NoPort => cand'[t].port = start
                ELSE /\ arg[t].port = NoPort
                     /\ cand'[t].port = cand[t].port + 1
                     /\ cand'[t].port < end]_vars

(* a thread waits for the lock while the scan of another thread is at the
   last port of the range *)
C16_Witness ==
    \E t \in Threads, u \in Threads :
        /\ t # u
        /\ pc[t] = "acquire"
        /\ lock.owner = u
        /\ Scanning(u)
        /\ pc[u] = "try"
        /\ start < end - 1
        /\ cand[u].port = end - 1

----------------------------------------------------------------------------
(* C17: when the threads call reserve_port() concurrently, once each, and
   no reservation expires or is evicted, no two calls return the same port
   number, in any interleaving; each returned port holds a live
   reservation. *)
C17_ScansReturnDistinctPorts ==
    \A t \in Threads :
        result[t].kind = "return" =>
           /\ LiveKey(cache, now, Port(result[t].value, "tcp"))
           /\ \A u \in Threads \ {t} :
                 result[u].kind = "return" => result[u].value # result[t].value

(* every thread's scan has returned a port *)
C17_Witness ==
    /\ NumThreads >= 2
    /\ \A t \in Threads : pc[t] = "idle" /\ result[t].kind = "return"

----------------------------------------------------------------------------
(* C18, as stated: the insert of a successful reserve_port() adds exactly
   one reservation, for (n, tcp) with n the returned number, and every
   reservation that existed keeps its entry and its expiry time. *)
C18_ScanAddsOneKeepsRest ==
    [][\A t \in Threads :
          /\ (Scanning(t) /\ pc[t] = "insert" /\ Moved(t)) =>
                /\ cand[t].protocol = "tcp"
                /\ LiveKey(cache', now', cand[t])
                /\ Len(LiveEntries(cache', now)) = Len(LiveEntries(cache, now)) + 1
                /\ \A i \in 1..Len(cache) :
                      now < cache[i].expires =>
                         \E j \in 1..Len(cache') : cache'[j] = cache[i]
          /\ (Scanning(t) /\ Returns(t)) =>
                result'[t] = Returned(cand[t].port)]_vars

(* C18, amended: a successful reserve_port() returns n; its insert leaves
   (n, tcp) as the newest entry of the cache, reserved at the return when
   its time-to-live is positive (as it is when the duration is omitted),
   and its set_expiry touches that entry only; no other key gains an entry; every reservation that existed
   keeps its entry and its expiry time, except that when the cache already
   held MaxSize entries and (n, tcp) had none, the one entry whose expiry
   time is earliest is evicted.  The steps of the scan before the insert
   change no reservation, and the scan passes over m only when (m, tcp)
   itself holds a live reservation or cannot be bound: a reservation of
   (m, udp) alone never makes it skip m. *)
C18_ScanAddsOneEvictsAtMostOne ==
    [][\A t \in Threads :
          /\ (Scanning(t) /\ Returns(t)) =>
                /\ result'[t] = Returned(cand[t].port)
                /\ (ReservationTTL(arg[t].duration) > 0 =>
                      LiveKey(cache', now', cand[t]))
          /\ (Scanning(t) /\ pc[t] = "expiry" /\ Moved(t)) =>
                /\ Len(cache') = Len(cache)
                /\ \A i \in 1..Len(cache) :
                      cache[i].key # cand[t] => cache'[i] = cache[i]
          /\ (Scanning(t) /\ pc[t] = "insert" /\ Moved(t)) =>
                /\ cand[t].protocol = "tcp"
                /\ cache'[Len(cache')].key = cand[t]
                /\ \A j \in 1..(Len(cache') - 1) :
                      \E i \in 1..Len(cache) : cache[i] = cache'[j]
                /\ \A i \in 1..Len(cache) :
                      now < cache[i].expires =>
                         \/ \E j \in 1..Len(cache') : cache'[j] = cache[i]
                         \/ /\ Len(cache) >= MaxSize
                            /\ \A j \in 1..Len(cache) : cache[j].key # cand[t]
                            /\ \A j \in 1..Len(cache) :
                                  cache[i].expires <= cache[j].expires
                /\ Len(cache') >= Len(cache) - 1
          /\ (Scanning(t) /\ pc[t] \notin {"insert", "expiry"} /\ Moved(t)) =>
                LiveEntries(cache', now) = LiveEntries(cache, now)
          /\ (Scanning(t) /\ pc[t] = "try" /\ Moved(t)
                /\ ~LiveKey(cache, now, Port(cand[t].port, "tcp"))) =>
                   (pc'[t] = "probe" /\ cand'[t] = cand[t])
          /\ (Scanning(t) /\ pc[t] = "probe" /\ Moved(t)
                /\ Port(cand[t].port, "tcp") \notin osBound) =>
                   (pc'[t] = "insert" /\ cand'[t] = cand[t])]_vars

(* the scan has returned the first number of the range while the udp port
   of that number holds a live reservation and the cache is full *)
C18_Witness ==
    \E t \in Threads :
        /\ pc[t] = "idle"
        /\ result[t] = Returned(RangeStart)
        /\ LiveKey(cache, now, Port(RangeStart, "udp"))
        /\ LiveKey(cache, now, Port(RangeStart, "tcp"))
        /\ Len(cache) = MaxSize

====
